---------------------------- MODULE Spec2Model ----------------------------
(***************************************************************************)
(* Wooden calendar puzzle solver.                                          *)
(*                                                                         *)
(* A Python int used as a bitmask is modelled as the set of the positions  *)
(* of its set bits: x | y is \cup, x & y is \cap, x ^ y (x a superset of   *)
(* y) is \, 1 << b is {b}.  Rows, columns, piece indices and bit indices   *)
(* are 0-based as in the source; TLA+ sequences are 1-based, so element k  *)
(* of a Python list is element k+1 of the sequence that models it.         *)
(* The decorative board label (a heart) is written "HEART".                *)
(***************************************************************************)
EXTENDS Integers, Sequences, FiniteSets, TLC

(***************************************************************************)
(* Static board data                                                       *)
(***************************************************************************)
BOARD ==
  << << "1",  "2",  "3",  "4",  "OCA", "HEART", "PZT" >>,
     << "5",  "6",  "7",  "8",  "SUB", "MAR",   "SAL" >>,
     << "9",  "10", "11", "12", "NIS", "MAY",   "CAR" >>,
     << "13", "14", "15", "16", "HAZ", "TEM",   "PER" >>,
     << "17", "18", "19", "20", "AGU", "EYL",   "CUM" >>,
     << "21", "22", "23", "24", "EKI", "KAS",   "CMT" >>,
     << "25", "26", "27", "28", "ARA", "HEART", "PAZ" >>,
     << "29", "30", "31", "",   "",    "",      ""    >> >>

MONTHS ==
  << "OCA", "SUB", "MAR", "NIS", "MAY", "HAZ",
     "TEM", "AGU", "EYL", "EKI", "KAS", "ARA" >>

DAYS == << "PZT", "SAL", "CAR", "PER", "CUM", "CMT", "PAZ" >>

PIECES ==
  << << <<1, 0>>, <<1, 0>>, <<1, 0>>, <<1, 1>> >>,
     << <<1, 1, 0>>, <<0, 1, 0>>, <<0, 1, 1>> >>,
     << <<0, 1>>, <<0, 1>>, <<1, 1>>, <<1, 0>> >>,
     << <<1, 1, 1, 1, 1>> >>,
     << <<0, 1, 1>>, <<1, 1, 0>> >>,
     << <<0, 0, 1>>, <<0, 0, 1>>, <<1, 1, 1>> >>,
     << <<1, 1, 1>>, <<0, 1, 0>>, <<0, 1, 0>> >>,
     << <<1, 1, 1>>, <<1, 0, 1>> >>,
     << <<1, 1, 1, 1>>, <<0, 0, 1, 0>> >>,
     << <<0, 1>>, <<1, 1>>, <<1, 1>> >> >>

board_h == Len(BOARD)

board_w == Len(BOARD[1])

NumPieces == Len(PIECES)

PieceIds == 0 .. (NumPieces - 1)

\* BOARD[r][c] with the source's 0-based indices
BoardAt(r, c) == BOARD[r + 1][c + 1]

(***************************************************************************)
(* Sequence helpers                                                        *)
(***************************************************************************)
RECURSIVE Flatten(_)
Flatten(ss) == IF ss = << >> THEN << >> ELSE Head(ss) \o Flatten(Tail(ss))

Range(s) == { s[i] : i \in 1 .. Len(s) }

Reverse(s) == [ i \in 1 .. Len(s) |-> s[Len(s) + 1 - i] ]

SetMax(S) == CHOOSE x \in S : \A y \in S : y <= x

SetMin(S) == CHOOSE x \in S : \A y \in S : x <= y

\* the (r, c) pairs of an h x w grid in row-major order
RowMajor(h, w) == [ k \in 1 .. (h * w) |-> << (k - 1) \div w, (k - 1) % w >> ]

(***************************************************************************)
(* Constructor: bit index of every playable cell                           *)
(***************************************************************************)
\* mutant: blank squares get a bit too
IsPlayable_All(pos) == TRUE

IsPlayable(pos) == BoardAt(pos[1], pos[2]) # ""

\* the cells that receive a bit, in the order the constructor visits them
ValidCells == SelectSeq(RowMajor(board_h, board_w), IsPlayable)

PosToBitInit == [ pos \in Range(ValidCells) |->
                    (CHOOSE k \in 1 .. Len(ValidCells) : ValidCells[k] = pos) - 1 ]

\* mutant: bit_to_pos is filled after the counter is incremented
BitToPosInit_AfterIncrement ==
  [ bit \in 1 .. Len(ValidCells) |-> ValidCells[bit] ]

BitToPosInit == [ bit \in 0 .. (Len(ValidCells) - 1) |-> ValidCells[bit + 1] ]

total_bits == Len(ValidCells)

valid_mask == 0 .. (total_bits - 1)

all_used_mask == PieceIds

(***************************************************************************)
(* Geometry helpers                                                        *)
(***************************************************************************)
Rot90(mat) ==
  LET h == Len(mat)
      w == Len(mat[1])
  IN  [ j \in 1 .. w |-> [ i \in 1 .. h |-> mat[h + 1 - i][j] ] ]

FlipH(mat) ==
  [ i \in 1 .. Len(mat) |->
      [ j \in 1 .. Len(mat[i]) |-> mat[i][Len(mat[i]) + 1 - j] ] ]

FlipV(mat) == [ i \in 1 .. Len(mat) |-> mat[Len(mat) + 1 - i] ]

\* list of lists -> tuple of tuples, same entries
Normalise(mat) ==
  [ i \in 1 .. Len(mat) |-> [ j \in 1 .. Len(mat[i]) |-> mat[i][j] ] ]

\* the four variants tried for one rotation, in the order of the source
Variants(cur) == << cur, FlipH(cur), FlipV(cur), FlipH(FlipV(cur)) >>

\* the 16 variants of the 4 rotations, in loop order
AllVariants(piece) ==
  LET r1 == Rot90(piece)
      r2 == Rot90(r1)
      r3 == Rot90(r2)
  IN  Variants(piece) \o Variants(r1) \o Variants(r2) \o Variants(r3)

\* mutant: the "seen" test is missing
DedupFrom_KeepsAll(vs, k, seen) == vs

\* keep the first occurrence of every key ("if key in seen: continue")
RECURSIVE DedupFrom(_, _, _)
DedupFrom(vs, k, seen) ==
  IF k > Len(vs) THEN << >>
  ELSE IF Normalise(vs[k]) \in seen THEN DedupFrom(vs, k + 1, seen)
  ELSE << vs[k] >> \o DedupFrom(vs, k + 1, seen \cup { Normalise(vs[k]) })

\* filled cells of a variant, row-major, shifted to top-left origin
OrientCells(variant) ==
  LET h     == Len(variant)
      w     == Len(variant[1])
      cells == SelectSeq(RowMajor(h, w),
                         LAMBDA rc : variant[rc[1] + 1][rc[2] + 1] # 0)
      min_r == SetMin({ cells[i][1] : i \in 1 .. Len(cells) })
      min_c == SetMin({ cells[i][2] : i \in 1 .. Len(cells) })
  IN  [ i \in 1 .. Len(cells) |-> << cells[i][1] - min_r, cells[i][2] - min_c >> ]

gen_orientations(piece) ==
  LET kept == DedupFrom(AllVariants(piece), 1, {})
  IN  [ i \in 1 .. Len(kept) |-> OrientCells(kept[i]) ]

(***************************************************************************)
(* Constructor: placement tables                                           *)
(***************************************************************************)
\* the mask of orientation orient anchored at (sr, sc); ok is FALSE when a
\* covered square is blank
PlaceAt(orient, sr, sc) ==
  LET cells == { << sr + orient[i][1], sc + orient[i][2] >> : i \in 1 .. Len(orient) }
      ok    == \A pos \in cells : BoardAt(pos[1], pos[2]) # ""
  IN  [ ok |-> ok,
        mask |-> IF ok THEN { PosToBitInit[pos] : pos \in cells } ELSE {} ]

\* placements of one orientation over all anchors, sr outer, sc inner
OrientPlacements(orient) ==
  LET max_r   == SetMax({ orient[i][1] : i \in 1 .. Len(orient) })
      max_c   == SetMax({ orient[i][2] : i \in 1 .. Len(orient) })
      nr      == board_h - max_r
      nc      == board_w - max_c
      anchors == IF nr <= 0 \/ nc <= 0 THEN << >> ELSE RowMajor(nr, nc)
      tried   == [ k \in 1 .. Len(anchors) |->
                     PlaceAt(orient, anchors[k][1], anchors[k][2]) ]
      okay    == SelectSeq(tried, LAMBDA t : t.ok)
  IN  [ k \in 1 .. Len(okay) |-> okay[k].mask ]

PiecePlacements(p_idx) ==
  LET orients == gen_orientations(PIECES[p_idx + 1])
  IN  Flatten([ i \in 1 .. Len(orients) |-> OrientPlacements(orients[i]) ])

PlacementsByPieceInit == [ p_idx \in PieceIds |-> PiecePlacements(p_idx) ]

\* mutant: a placement is registered under its lowest cell only
CellOptions_LowestCellOnly(bit) ==
  Flatten([ q \in 1 .. NumPieces |->
    LET covering == SelectSeq(PlacementsByPieceInit[q - 1], LAMBDA m : bit = SetMin(m))
    IN  [ k \in 1 .. Len(covering) |-> << q - 1, covering[k] >> ] ])

\* (p_idx, mask) pairs covering bit, in the order they are appended
CellOptions(bit) ==
  Flatten([ q \in 1 .. NumPieces |->
    LET covering == SelectSeq(PlacementsByPieceInit[q - 1], LAMBDA m : bit \in m)
    IN  [ k \in 1 .. Len(covering) |-> << q - 1, covering[k] >> ] ])

CellToOptionsInit == [ bit \in valid_mask |-> CellOptions(bit) ]

(***************************************************************************)
(* Date labels                                                             *)
(***************************************************************************)
MONTHS_ITEMS == [ k \in 1 .. Len(MONTHS) |-> << MONTHS[k], k >> ]

DAYS_ITEMS == [ k \in 1 .. Len(DAYS) |-> << DAYS[k], k >> ]

\* next(k for k, v in items if v == n); HasKey is FALSE when next() raises
HasKey(items, n) == \E i \in 1 .. Len(items) : items[i][2] = n

FirstKey(items, n) ==
  items[SetMin({ i \in 1 .. Len(items) : items[i][2] = n })][1]

Digit == << "0", "1", "2", "3", "4", "5", "6", "7", "8", "9" >>

\* str(n) for n >= 0
\* mutant: only the last digit is formatted
Str_LastDigit(n) == Digit[(n % 10) + 1]

RECURSIVE Str(_)
Str(n) == IF n < 10 THEN Digit[n + 1]
          ELSE Str(n \div 10) \o Digit[(n % 10) + 1]

\* _target_mask: bits of the cells whose label is one of the four strings
target_mask(p2b, day, month_abbr, day_abbr) ==
  LET day_str == Str(day)
  IN  { p2b[pos] : pos \in { q \in DOMAIN p2b :
          BoardAt(q[1], q[2]) \in { "", day_str, month_abbr, day_abbr } } }

\* DPCalendarPuzzleSolver.create_target_mask: the second loop, over the
\* blank cells, finds no bit (pos_to_bit.get returns None) and sets nothing
create_target_mask(p2b, day, month_abbr, day_abbr) ==
  LET day_str == Str(day)
      cells   == Range(RowMajor(board_h, board_w))
      labeled == { q \in cells : BoardAt(q[1], q[2]) \in { day_str, month_abbr, day_abbr } }
      blank   == { q \in cells : BoardAt(q[1], q[2]) = "" }
  IN  { p2b[q] : q \in (labeled \cap DOMAIN p2b) } \cup
      { p2b[q] : q \in (blank \cap DOMAIN p2b) }

\* CalendarPuzzleSolver.find_target_positions: (i, j) list, row-major
find_target_positions(day, month_abbr, day_abbr) ==
  LET day_str == Str(day)
  IN  SelectSeq(RowMajor(board_h, board_w),
                LAMBDA q : BoardAt(q[1], q[2]) \in { day_str, month_abbr, day_abbr })

(***************************************************************************)
(* Search: dfs of _solve_mask as an explicit stack                         *)
(***************************************************************************)
\* x ^ y on bit sets
Xor(a, b) == (a \ b) \cup (b \ a)

\* (empty_bits & -empty_bits).bit_length() - 1
first_empty_bit(board_mask) == SetMin(Xor(valid_mask, board_mask))

\* index >= from of the first option that passes both "continue" tests,
\* 0 when the loop runs off the end
\* mutant: the "piece already used" test is missing
NextOption_NoUsedTest(opts, from, board_mask, used_mask) ==
  LET ok == { j \in from .. Len(opts) : opts[j][2] \cap board_mask = {} }
  IN  IF ok = {} THEN 0 ELSE SetMin(ok)

\* mutant: the overlap test is missing
NextOption_NoOverlapTest(opts, from, board_mask, used_mask) ==
  LET ok == { j \in from .. Len(opts) : opts[j][1] \notin used_mask }
  IN  IF ok = {} THEN 0 ELSE SetMin(ok)

NextOption(opts, from, board_mask, used_mask) ==
  LET ok == { j \in from .. Len(opts) :
                /\ opts[j][1] \notin used_mask
                /\ opts[j][2] \cap board_mask = {} }
  IN  IF ok = {} THEN 0 ELSE SetMin(ok)

\* the body of dfs without its decorator: the same search with no cache
RECURSIVE dfs_uncached(_, _, _)
dfs_uncached(cto, board_mask, used_mask) ==
  IF board_mask = valid_mask THEN TRUE
  ELSE LET opts == cto[first_empty_bit(board_mask)]
       IN  \E j \in 1 .. Len(opts) :
             /\ opts[j][1] \notin used_mask
             /\ opts[j][2] \cap board_mask = {}
             /\ dfs_uncached(cto, board_mask \cup opts[j][2],
                             used_mask \cup { opts[j][1] })

Top(stack) == stack[Len(stack)]

\* mutant: results are stored under the board mask alone
Key_MaskOnly(frame) == << frame.board_mask, {} >>

Key(frame) == << frame.board_mask, frame.used_mask >>

\* a frame of dfs whose body runs: the loop is about to read option idx
NewFrame(board_mask, used_mask) ==
  [ board_mask |-> board_mask, used_mask |-> used_mask,
    bit |-> first_empty_bit(board_mask), idx |-> 1 ]

\* mutant: one cache for the solver's lifetime
NewCache_Kept(old) == old

\* the lru_cache made by the decorator each time _solve_mask defines dfs;
\* old is the cache of the solver's previous query, which the new one ignores
NewCache(old) == << >>

IdleRun ==
  [ pc |-> "idle", query |-> << >>, target |-> {}, cache |-> << >>,
    stack |-> << >>, solution |-> << >>, found |-> FALSE, calls |-> 0,
    hits |-> 0, moves |-> [ is_none |-> TRUE, list |-> << >> ],
    result |-> << >>, reused |-> FALSE ]

\* dfs(board_mask, used_mask) called from outside dfs, base being the run
\* that makes the call
FirstCall(base, board_mask, used_mask) ==
  LET key == << board_mask, used_mask >>
  IN  IF key \in DOMAIN base.cache
        THEN [ base EXCEPT !.found = base.cache[key], !.hits = 1 ]
      ELSE IF board_mask = valid_mask
        THEN [ base EXCEPT !.found = TRUE, !.cache = @ @@ (key :> TRUE) ]
      ELSE [ base EXCEPT !.stack = << NewFrame(board_mask, used_mask) >> ]

\* mutant: the pieces used by the previous query are still marked used
EnterSearch_KeepsUsed(r, q, initial_mask) ==
  FirstCall([ IdleRun EXCEPT !.pc = "search", !.query = q,
                             !.target = initial_mask,
                             !.cache = NewCache(r.cache), !.calls = 1 ],
            initial_mask, { r.solution[i][1] : i \in 1 .. Len(r.solution) })

\* _solve_mask up to its call dfs(initial_mask, 0)
EnterSearch(r, q, initial_mask) ==
  FirstCall([ IdleRun EXCEPT !.pc = "search", !.query = q,
                             !.target = initial_mask,
                             !.cache = NewCache(r.cache), !.calls = 1 ],
            initial_mask, {})

\* solve_for_date up to the first dfs call; next() raises on a bad number.
\* reused (history, not program state) records that the solver's previous
\* call searched for another date.
BeginQuery(p2b, r, q) ==
  LET started ==
        IF ~ (HasKey(MONTHS_ITEMS, q[2]) /\ HasKey(DAYS_ITEMS, q[3]))
          THEN [ IdleRun EXCEPT !.pc = "raised", !.query = q, !.cache = r.cache ]
        ELSE EnterSearch(r, q, target_mask(p2b, q[1], FirstKey(MONTHS_ITEMS, q[2]),
                                           FirstKey(DAYS_ITEMS, q[3])))
  IN  [ started EXCEPT !.reused = (r.pc = "done" /\ r.query # q) ]

CanCall(cto, r) ==
  /\ r.pc = "search" /\ ~ r.found /\ r.stack # << >>
  /\ NextOption(cto[Top(r.stack).bit], Top(r.stack).idx,
                Top(r.stack).board_mask, Top(r.stack).used_mask) # 0

\* mutant: dfs without its decorator, every call runs the body
CallStep_NoLookup(cto, r) ==
  LET n     == Len(r.stack)
      top   == r.stack[n]
      opts  == cto[top.bit]
      j     == NextOption(opts, top.idx, top.board_mask, top.used_mask)
      child == << top.board_mask \cup opts[j][2], top.used_mask \cup { opts[j][1] } >>
      r1    == [ r EXCEPT !.calls = @ + 1 ]
  IN  IF child[1] = valid_mask
        THEN [ r1 EXCEPT !.found = TRUE, !.stack[n].idx = j,
                         !.cache = @ @@ (child :> TRUE) ]
      ELSE [ r1 EXCEPT !.stack = [ @ EXCEPT ![n].idx = j ]
                                   \o << NewFrame(child[1], child[2]) >> ]

\* the loop reaches an option that is not skipped and calls dfs on it
CallStep(cto, r) ==
  LET n     == Len(r.stack)
      top   == r.stack[n]
      opts  == cto[top.bit]
      j     == NextOption(opts, top.idx, top.board_mask, top.used_mask)
      child == << top.board_mask \cup opts[j][2], top.used_mask \cup { opts[j][1] } >>
      r1    == [ r EXCEPT !.calls = @ + 1 ]
  IN  IF child \in DOMAIN r.cache
        THEN IF r.cache[child]
               THEN [ r1 EXCEPT !.hits = @ + 1, !.found = TRUE, !.stack[n].idx = j ]
               ELSE [ r1 EXCEPT !.hits = @ + 1, !.stack[n].idx = j + 1 ]
      ELSE IF child[1] = valid_mask
        THEN [ r1 EXCEPT !.found = TRUE, !.stack[n].idx = j,
                         !.cache = @ @@ (child :> TRUE) ]
      ELSE [ r1 EXCEPT !.stack = [ @ EXCEPT ![n].idx = j ]
                                   \o << NewFrame(child[1], child[2]) >> ]

CanFail(cto, r) ==
  /\ r.pc = "search" /\ ~ r.found /\ r.stack # << >>
  /\ NextOption(cto[Top(r.stack).bit], Top(r.stack).idx,
                Top(r.stack).board_mask, Top(r.stack).used_mask) = 0

\* the loop runs off the end: return False, the caller's loop goes on
FailStep(r) ==
  LET n     == Len(r.stack)
      below == SubSeq(r.stack, 1, n - 1)
  IN  [ r EXCEPT !.cache = @ @@ (Key(r.stack[n]) :> FALSE),
                 !.stack = IF n = 1 THEN << >>
                           ELSE [ below EXCEPT ![n - 1].idx = @ + 1 ] ]

CanUnwind(r) == r.pc = "search" /\ r.found /\ r.stack # << >>

\* mutant: True is passed up without recording the move
UnwindStep_NoAppend(cto, r) ==
  LET n   == Len(r.stack)
      top == r.stack[n]
  IN  [ r EXCEPT !.cache = @ @@ (Key(top) :> TRUE),
                 !.stack = SubSeq(@, 1, n - 1) ]

\* the callee returned True: append the move, return True
UnwindStep(cto, r) ==
  LET n   == Len(r.stack)
      top == r.stack[n]
  IN  [ r EXCEPT !.solution = Append(@, cto[top.bit][top.idx]),
                 !.cache = @ @@ (Key(top) :> TRUE),
                 !.stack = SubSeq(@, 1, n - 1) ]

\* mutant: the target squares are not marked
mask_to_board_NoTargets(b2p, moves, target) ==
  [ r \in 0 .. (board_h - 1) |-> [ c \in 0 .. (board_w - 1) |->
      LET covering == { k \in 1 .. Len(moves) :
                          \E bit \in (moves[k][2] \cap valid_mask) : b2p[bit] = << r, c >> }
      IN  IF covering # {} THEN moves[SetMax(covering)][1] + 1
          ELSE IF BoardAt(r, c) = "" THEN -2 ELSE 0 ] ]

\* _mask_to_board
mask_to_board(b2p, moves, target) ==
  [ r \in 0 .. (board_h - 1) |-> [ c \in 0 .. (board_w - 1) |->
      LET covering == { k \in 1 .. Len(moves) :
                          \E bit \in (moves[k][2] \cap valid_mask) : b2p[bit] = << r, c >> }
      IN  IF covering # {} THEN moves[SetMax(covering)][1] + 1
          ELSE IF /\ BoardAt(r, c) # ""
                  /\ \E bit \in (target \cap valid_mask) : b2p[bit] = << r, c >>
            THEN -1
          ELSE IF BoardAt(r, c) = "" THEN -2 ELSE 0 ] ]

CanReturn(r) == r.pc = "search" /\ r.stack = << >>

\* mutant: the solution list is returned as appended, deepest move first
ReturnStep_NotReversed(b2p, r) ==
  LET moves == [ is_none |-> ~ r.found,
                 list |-> IF r.found THEN r.solution ELSE << >> ]
  IN  [ r EXCEPT !.pc = "done", !.moves = moves,
                 !.result = IF moves.is_none THEN << >>
                            ELSE << mask_to_board(b2p, moves.list, r.target) >> ]

\* mutant: the test of dfs's result is inverted
ReturnStep_Inverted(b2p, r) ==
  LET moves == [ is_none |-> r.found,
                 list |-> IF r.found THEN << >> ELSE Reverse(r.solution) ]
  IN  [ r EXCEPT !.pc = "done", !.moves = moves,
                 !.result = IF moves.is_none THEN << >>
                            ELSE << mask_to_board(b2p, moves.list, r.target) >> ]

\* _solve_mask returns, solve_for_date builds its result
ReturnStep(b2p, r) ==
  LET moves == [ is_none |-> ~ r.found,
                 list |-> IF r.found THEN Reverse(r.solution) ELSE << >> ]
  IN  [ r EXCEPT !.pc = "done", !.moves = moves,
                 !.result = IF moves.is_none THEN << >>
                            ELSE << mask_to_board(b2p, moves.list, r.target) >> ]

(***************************************************************************)
(* Bounds and inputs                                                       *)
(***************************************************************************)
\* dates the repository's scripts solve (day, month, weekday); their searches
\* take hundreds to thousands of dfs calls and are run as one step each
TestDates == << << 1, 1, 1 >>, << 15, 3, 5 >>, << 25, 12, 3 >> >>

NumQueryDates == 2

\* dates whose search is followed one dfs step at a time
SteppedDates == << << 3, 12, 7 >>, << 2, 2, 1 >>, << 11, 6, 3 >> >>

NumSteppedDates == 2

\* dfs calls after which a query followed step by step is left alone
MaxCalls == 60

\* a search run as one step is given 2^LogMaxSteps dfs steps
LogMaxSteps == 14

\* a day with no cell, a month with no label
QueryInputs ==
  Range(SubSeq(SteppedDates, 1, NumSteppedDates)) \cup
    { << 99, 1, 1 >>, << 1, 13, 1 >> }

WholeInputs == Range(SubSeq(TestDates, 1, NumQueryDates))

(***************************************************************************)
(* State: one long-lived solver (its tables and the query running on it)   *)
(* and, beside it, the same query on a solver constructed for that query.  *)
(***************************************************************************)
\* probe holds the arguments and the result of one call of a pure function,
\* for the specifications that exercise one function over its inputs.
VARIABLES pos_to_bit, bit_to_pos, placements_by_piece, cell_to_options, run, ref,
          probe

tables == << pos_to_bit, bit_to_pos, placements_by_piece, cell_to_options >>

vars == << pos_to_bit, bit_to_pos, placements_by_piece, cell_to_options, run, ref,
          probe >>

NoProbe == [ fn |-> "none" ]

Constructed ==
  /\ pos_to_bit = PosToBitInit
  /\ bit_to_pos = BitToPosInit
  /\ placements_by_piece = PlacementsByPieceInit
  /\ cell_to_options = CellToOptionsInit
  /\ run = IdleRun
  /\ ref = IdleRun

Init == Constructed /\ probe = NoProbe

Finished(r) == r.pc \in { "idle", "done", "raised" }

SolveForDate(q) ==
  /\ Finished(run) /\ Finished(ref)
  /\ run' = BeginQuery(pos_to_bit, run, q)
  /\ ref' = BeginQuery(PosToBitInit, IdleRun, q)
  /\ UNCHANGED << tables, probe >>

DfsCall ==
  /\ \/ CanCall(cell_to_options, run) /\ run.calls < MaxCalls
     \/ CanCall(CellToOptionsInit, ref) /\ ref.calls < MaxCalls
  /\ run' = IF CanCall(cell_to_options, run) /\ run.calls < MaxCalls
              THEN CallStep(cell_to_options, run) ELSE run
  /\ ref' = IF CanCall(CellToOptionsInit, ref) /\ ref.calls < MaxCalls
              THEN CallStep(CellToOptionsInit, ref) ELSE ref
  /\ UNCHANGED << tables, probe >>

\* mutant: a loop that runs off its end starts again instead of returning
DfsFail_Restarts ==
  /\ CanFail(cell_to_options, run) \/ CanFail(CellToOptionsInit, ref)
  /\ run' = IF CanFail(cell_to_options, run)
              THEN [ run EXCEPT !.stack[Len(run.stack)].idx = 1 ] ELSE run
  /\ ref' = IF CanFail(CellToOptionsInit, ref)
              THEN [ ref EXCEPT !.stack[Len(ref.stack)].idx = 1 ] ELSE ref
  /\ UNCHANGED << tables, probe >>

DfsFail ==
  /\ CanFail(cell_to_options, run) \/ CanFail(CellToOptionsInit, ref)
  /\ run' = IF CanFail(cell_to_options, run) THEN FailStep(run) ELSE run
  /\ ref' = IF CanFail(CellToOptionsInit, ref) THEN FailStep(ref) ELSE ref
  /\ UNCHANGED << tables, probe >>

\* mutant: the option taken is removed from the solver's table
DfsUnwind_ConsumesOption ==
  /\ CanUnwind(run)
  /\ run' = UnwindStep(cell_to_options, run)
  /\ ref' = IF CanUnwind(ref) THEN UnwindStep(CellToOptionsInit, ref) ELSE ref
  /\ cell_to_options' =
       [ cell_to_options EXCEPT ![Top(run.stack).bit] =
           SubSeq(@, 1, Top(run.stack).idx - 1) \o
           SubSeq(@, Top(run.stack).idx + 1, Len(@)) ]
  /\ UNCHANGED << pos_to_bit, bit_to_pos, placements_by_piece, probe >>

DfsUnwind ==
  /\ CanUnwind(run) \/ CanUnwind(ref)
  /\ run' = IF CanUnwind(run) THEN UnwindStep(cell_to_options, run) ELSE run
  /\ ref' = IF CanUnwind(ref) THEN UnwindStep(CellToOptionsInit, ref) ELSE ref
  /\ UNCHANGED << tables, probe >>

SolveMaskReturn ==
  /\ CanReturn(run) \/ CanReturn(ref)
  /\ run' = IF CanReturn(run) THEN ReturnStep(bit_to_pos, run) ELSE run
  /\ ref' = IF CanReturn(ref) THEN ReturnStep(BitToPosInit, ref) ELSE ref
  /\ UNCHANGED << tables, probe >>

\* one step of a query in progress: dfs is called, returns False, returns
\* True, or _solve_mask returns to solve_for_date
StepOnce(cto, b2p, r) ==
  IF CanCall(cto, r) THEN CallStep(cto, r)
  ELSE IF CanFail(cto, r) THEN FailStep(r)
  ELSE IF CanUnwind(r) THEN UnwindStep(cto, r)
  ELSE IF CanReturn(r) THEN ReturnStep(b2p, r)
  ELSE r

\* up to 2^k steps, stopping when the query has returned
RECURSIVE Iterate(_, _, _, _)
Iterate(cto, b2p, r, k) ==
  IF r.pc # "search" THEN r
  ELSE IF k = 0 THEN StepOnce(cto, b2p, r)
  ELSE Iterate(cto, b2p, Iterate(cto, b2p, r, k - 1), k - 1)

\* solve_for_date(q) from call to return on a solver just constructed
OnFreshSolver ==
  [ q \in WholeInputs |->
      Iterate(CellToOptionsInit, BitToPosInit,
              BeginQuery(PosToBitInit, IdleRun, q), LogMaxSteps) ]

\* solve_for_date from its call to its return
SolveForDateWhole(q) ==
  /\ Finished(run) /\ Finished(ref)
  /\ run' = Iterate(cell_to_options, bit_to_pos,
                    BeginQuery(pos_to_bit, run, q), LogMaxSteps)
  /\ ref' = OnFreshSolver[q]
  /\ Finished(run') /\ Finished(ref')
  /\ UNCHANGED << tables, probe >>

Next ==
  \/ \E q \in QueryInputs : SolveForDate(q)
  \/ \E q \in WholeInputs : SolveForDateWhole(q)
  \/ DfsCall
  \/ DfsFail
  \/ DfsUnwind
  \/ SolveMaskReturn

Spec == Init /\ [][Next]_vars

\* One query at a time, followed step by step.  The program is one thread
\* that runs each call to its return, so every step that can be taken is
\* taken.
NextLive ==
  \/ \E q \in QueryInputs : SolveForDate(q)
  \/ DfsCall
  \/ DfsFail
  \/ DfsUnwind
  \/ SolveMaskReturn

SpecLive ==
  /\ Init /\ [][NextLive]_vars
  /\ WF_vars(DfsCall) /\ WF_vars(DfsFail) /\ WF_vars(DfsUnwind)
  /\ WF_vars(SolveMaskReturn)

(***************************************************************************)
(* The target-mask builders of the three solvers, over every date          *)
(***************************************************************************)
DAYS_IN_MONTH == << 31, 28, 31, 30, 31, 30, 31, 31, 30, 31, 30, 31 >>

DateInputs ==
  (1 .. SetMax(Range(DAYS_IN_MONTH))) \X (1 .. Len(MONTHS)) \X (1 .. Len(DAYS))

InitTarget ==
  /\ Constructed
  /\ \E q \in DateInputs :
       probe = [ fn |-> "target", pc |-> "call", day |-> q[1],
                 month_abbr |-> FirstKey(MONTHS_ITEMS, q[2]),
                 day_abbr |-> FirstKey(DAYS_ITEMS, q[3]),
                 month |-> q[2], weekday |-> q[3],
                 fast |-> {}, dp |-> {}, positions |-> << >> ]

TargetMaskCall ==
  /\ probe.fn = "target" /\ probe.pc = "call"
  /\ probe' = [ probe EXCEPT
       !.pc = "returned",
       !.fast = target_mask(pos_to_bit, probe.day, probe.month_abbr, probe.day_abbr),
       !.dp = create_target_mask(pos_to_bit, probe.day, probe.month_abbr, probe.day_abbr),
       !.positions = find_target_positions(probe.day, probe.month_abbr, probe.day_abbr) ]
  /\ UNCHANGED << tables, run, ref >>

NextTarget == TargetMaskCall

SpecTarget == InitTarget /\ [][NextTarget]_vars

(***************************************************************************)
(* CalendarPuzzleSolver, the original brute-force solver.  Its board,      *)
(* pieces and label tables are the ones above.  A board state is the grid  *)
(* of cell values: 0 uncovered, -1 target, -2 blank, piece id 1..10.       *)
(***************************************************************************)
rotate_90(piece) ==
  LET rows == Len(piece)
      cols == Len(piece[1])
  IN  [ a \in 1 .. cols |-> [ b \in 1 .. rows |-> piece[rows + 1 - b][a] ] ]

flip_horizontal(piece) ==
  [ i \in 1 .. Len(piece) |->
      [ j \in 1 .. Len(piece[i]) |-> piece[i][Len(piece[i]) + 1 - j] ] ]

flip_vertical(piece) == [ i \in 1 .. Len(piece) |-> piece[Len(piece) + 1 - i] ]

normalize_piece(piece) ==
  [ i \in 1 .. Len(piece) |-> [ j \in 1 .. Len(piece[i]) |-> piece[i][j] ] ]

\* the elements of vs without repetition, in order of first occurrence
Distinct(vs) ==
  LET firsts == SelectSeq([ k \in 1 .. Len(vs) |-> k ],
                          LAMBDA k : \A j \in 1 .. (k - 1) : vs[j] # vs[k])
  IN  [ i \in 1 .. Len(firsts) |-> vs[firsts[i]] ]

\* mutant: the flipped variants are not added
OrientationsAdded_NoFlips(current) == << normalize_piece(current) >>

\* what one pass of the loop adds to the set
OrientationsAdded(current) ==
  << normalize_piece(current),
     normalize_piece(flip_horizontal(current)),
     normalize_piece(flip_vertical(current)),
     normalize_piece(flip_horizontal(flip_vertical(current))) >>

\* The source collects the orientations in a set and lists the set; the
\* order of that list is the interpreter's.  Here it is the order of first
\* insertion.
generate_all_orientations(piece) ==
  LET c1 == rotate_90(piece)
      c2 == rotate_90(c1)
      c3 == rotate_90(c2)
  IN  Distinct(OrientationsAdded(piece) \o OrientationsAdded(c1) \o
               OrientationsAdded(c2) \o OrientationsAdded(c3))

all_piece_orientations ==
  [ p \in PieceIds |-> generate_all_orientations(PIECES[p + 1]) ]

\* mutant: only the board's extent is tested, not what the cells hold
can_place_piece_ExtentOnly(board_state, piece, start_row, start_col) ==
  LET piece_height == Len(piece)
      piece_width  == IF piece = << >> THEN 0 ELSE Len(piece[1])
  IN  ~ \/ start_row + piece_height > board_h
        \/ start_col + piece_width > board_w

can_place_piece(board_state, piece, start_row, start_col) ==
  LET piece_height == Len(piece)
      piece_width  == IF piece = << >> THEN 0 ELSE Len(piece[1])
  IN  IF \/ start_row + piece_height > board_h
         \/ start_col + piece_width > board_w
        THEN FALSE
      ELSE \A i \in 0 .. (piece_height - 1) : \A j \in 0 .. (piece_width - 1) :
             piece[i + 1][j + 1] = 1 => board_state[start_row + i][start_col + j] = 0

\* the cells of the board a piece anchored at (start_row, start_col) fills
PieceCells(piece, start_row, start_col) ==
  { << start_row + i, start_col + j >> :
      << i, j >> \in { ij \in (0 .. (Len(piece) - 1)) \X (0 .. (Len(piece[1]) - 1)) :
                         piece[ij[1] + 1][ij[2] + 1] = 1 } }

place_piece(board_state, piece, start_row, start_col, piece_id) ==
  LET cells == PieceCells(piece, start_row, start_col)
  IN  [ r \in DOMAIN board_state |-> [ c \in DOMAIN board_state[r] |->
        IF << r, c >> \in cells THEN piece_id ELSE board_state[r][c] ] ]

\* mutant: the piece stays on the board
remove_piece_Nothing(board_state, piece, start_row, start_col) == board_state

remove_piece(board_state, piece, start_row, start_col) ==
  LET cells == PieceCells(piece, start_row, start_col)
  IN  [ r \in DOMAIN board_state |-> [ c \in DOMAIN board_state[r] |->
        IF << r, c >> \in cells THEN 0 ELSE board_state[r][c] ] ]

create_initial_board_state(day, month_abbr, day_abbr) ==
  LET target_positions == Range(find_target_positions(day, month_abbr, day_abbr))
  IN  [ r \in 0 .. (board_h - 1) |-> [ c \in 0 .. (board_w - 1) |->
        IF BoardAt(r, c) = "" THEN -2
        ELSE IF << r, c >> \in target_positions THEN -1
        ELSE 0 ] ]

is_board_complete(board_state) ==
  \A r \in DOMAIN board_state : \A c \in DOMAIN board_state[r] :
    board_state[r][c] # 0

\* mutant: only the first orientation of each piece is tried
BacktrackTries_FirstOrientation ==
  [ p \in PieceIds |->
      [ n \in 1 .. (board_h * board_w) |->
          << all_piece_orientations[p][1],
             RowMajor(board_h, board_w)[n][1],
             RowMajor(board_h, board_w)[n][2] >> ] ]

\* (orientation, row, col) in the order the three loops of solve_backtrack
\* visit them
BacktrackTries ==
  [ p \in PieceIds |->
      Flatten([ k \in 1 .. Len(all_piece_orientations[p]) |->
        [ n \in 1 .. (board_h * board_w) |->
            << all_piece_orientations[p][k],
               RowMajor(board_h, board_w)[n][1],
               RowMajor(board_h, board_w)[n][2] >> ] ]) ]

\* solve_backtrack works on one board and one set of used pieces, in place;
\* st carries them with the solutions collected so far.
RECURSIVE solve_backtrack(_, _, _)
RECURSIVE BacktrackLoop(_, _, _, _)

\* mutant: the piece is not taken out of used_pieces when backtracking
BacktrackTry_KeepsUsed(st, piece_index, try) ==
  IF can_place_piece(st.board_state, try[1], try[2], try[3])
    THEN LET placed == place_piece(st.board_state, try[1], try[2], try[3],
                                   piece_index + 1)
             sub    == solve_backtrack(placed, piece_index + 1,
                                       st.used_pieces \cup { piece_index })
         IN  [ board_state |-> remove_piece(sub.board_state, try[1], try[2], try[3]),
               used_pieces |-> sub.used_pieces,
               solutions   |-> st.solutions \o sub.solutions ]
  ELSE st

\* the body of the innermost loop for one (orientation, row, col)
BacktrackTry(st, piece_index, try) ==
  IF can_place_piece(st.board_state, try[1], try[2], try[3])
    THEN LET placed == place_piece(st.board_state, try[1], try[2], try[3],
                                   piece_index + 1)
             sub    == solve_backtrack(placed, piece_index + 1,
                                       st.used_pieces \cup { piece_index })
         IN  [ board_state |-> remove_piece(sub.board_state, try[1], try[2], try[3]),
               used_pieces |-> sub.used_pieces \ { piece_index },
               solutions   |-> st.solutions \o sub.solutions ]
  ELSE st

\* tries lo..hi of the loops, in order: the first half, then the second on
\* what the first half left (the test is there to order the evaluation)
BacktrackLoop(st, piece_index, lo, hi) ==
  IF lo > hi THEN st
  ELSE IF lo = hi THEN BacktrackTry(st, piece_index, BacktrackTries[piece_index][lo])
  ELSE LET mid   == (lo + hi) \div 2
           first == BacktrackLoop(st, piece_index, lo, mid)
       IN  IF DOMAIN first = {} THEN first
           ELSE BacktrackLoop(first, piece_index, mid + 1, hi)

solve_backtrack(board_state, piece_index, used_pieces) ==
  IF piece_index = Len(PIECES)
    THEN [ board_state |-> board_state, used_pieces |-> used_pieces,
           solutions |-> IF is_board_complete(board_state)
                           THEN << board_state >> ELSE << >> ]
  ELSE IF piece_index \in used_pieces
    THEN solve_backtrack(board_state, piece_index + 1, used_pieces)
  ELSE BacktrackLoop([ board_state |-> board_state, used_pieces |-> used_pieces,
                       solutions |-> << >> ],
                     piece_index, 1, Len(BacktrackTries[piece_index]))

(***************************************************************************)
(* DPCalendarPuzzleSolver.  Its constructor builds the same orientation    *)
(* lists as the brute-force solver and the same bit index as the fast one. *)
(* A solution is the dict solve_dp builds: board_mask, used_pieces and,    *)
(* under piece, the entry of every "piece_<i>" key.                        *)
(***************************************************************************)
piece_to_positions(piece) ==
  SelectSeq(RowMajor(Len(piece), Len(piece[1])),
            LAMBDA ij : piece[ij[1] + 1][ij[2] + 1] = 1)

piece_bit_patterns ==
  [ p \in PieceIds |->
      [ k \in 1 .. Len(all_piece_orientations[p]) |->
          piece_to_positions(all_piece_orientations[p][k]) ] ]

can_place_piece_at(p2b, board_mask, piece_positions, start_row, start_col) ==
  LET cells == { << start_row + piece_positions[i][1],
                    start_col + piece_positions[i][2] >> :
                   i \in 1 .. Len(piece_positions) }
      ok    == \A rc \in cells :
                 /\ rc[1] >= 0 /\ rc[1] < board_h /\ rc[2] >= 0 /\ rc[2] < board_w
                 /\ BoardAt(rc[1], rc[2]) # ""
                 /\ rc \in DOMAIN p2b
                 /\ p2b[rc] \notin board_mask
  IN  [ can_place |-> ok,
        piece_mask |-> IF ok THEN { p2b[rc] : rc \in cells } ELSE {} ]

\* for each piece, (piece_idx, pattern_idx, start_row, start_col) in the order
\* of the three inner loops of solve_dp; pattern_idx counts from 0
DpTries ==
  [ p \in PieceIds |->
    Flatten([ k \in 1 .. Len(piece_bit_patterns[p]) |->
      [ n \in 1 .. (board_h * board_w) |->
          << p, k - 1, RowMajor(board_h, board_w)[n][1],
             RowMajor(board_h, board_w)[n][2] >> ] ]) ]

\* solve_dp reads and writes self.memo; st carries the memo with the
\* solutions collected so far.
RECURSIVE solve_dp(_, _, _, _, _)
RECURSIVE DpLoop(_, _, _, _, _, _, _, _)
RECURSIVE DpPieces(_, _, _, _, _, _)

\* the body of the innermost loop
DpTry(p2b, st, board_mask, used_pieces, target, try) ==
  LET fit == can_place_piece_at(p2b, board_mask,
                                piece_bit_patterns[try[1]][try[2] + 1],
                                try[3], try[4])
  IN  IF ~ fit.can_place THEN st
      ELSE
        LET sub == solve_dp(p2b, st.memo, board_mask \cup fit.piece_mask,
                            used_pieces \cup { try[1] }, target)
            info == [ position |-> << try[3], try[4] >>, orientation |-> try[2],
                      mask |-> fit.piece_mask ]
        IN  [ memo |-> sub.memo,
              solutions |-> st.solutions \o
                [ i \in 1 .. Len(sub.result) |->
                    [ sub.result[i] EXCEPT
                        !.piece = (try[1] :> info) @@ sub.result[i].piece ] ] ]

\* tries lo..hi of one piece, in order (the test orders the evaluation)
DpLoop(p2b, st, board_mask, used_pieces, target, piece_idx, lo, hi) ==
  IF lo > hi THEN st
  ELSE IF lo = hi
    THEN DpTry(p2b, st, board_mask, used_pieces, target, DpTries[piece_idx][lo])
  ELSE LET mid   == (lo + hi) \div 2
           first == DpLoop(p2b, st, board_mask, used_pieces, target, piece_idx, lo, mid)
       IN  IF DOMAIN first = {} THEN first
           ELSE DpLoop(p2b, first, board_mask, used_pieces, target, piece_idx,
                       mid + 1, hi)

\* the outermost loop from piece_idx on, with its "continue"
DpPieces(p2b, st, board_mask, used_pieces, target, piece_idx) ==
  IF piece_idx = Len(PIECES) THEN st
  ELSE IF piece_idx \in used_pieces
    THEN DpPieces(p2b, st, board_mask, used_pieces, target, piece_idx + 1)
  ELSE LET after == DpLoop(p2b, st, board_mask, used_pieces, target, piece_idx,
                           1, Len(DpTries[piece_idx]))
       IN  IF DOMAIN after = {} THEN after
           ELSE DpPieces(p2b, after, board_mask, used_pieces, target, piece_idx + 1)

solve_dp(p2b, memo, board_mask, used_pieces, target) ==
  LET cache_key == << board_mask, used_pieces >>
  IN  IF cache_key \in DOMAIN memo
        THEN [ memo |-> memo, result |-> memo[cache_key] ]
      ELSE IF used_pieces = PieceIds
        THEN LET result == IF board_mask = 0 .. (total_bits - 1)
                             THEN << [ board_mask |-> board_mask,
                                       used_pieces |-> used_pieces,
                                       piece |-> << >> ] >>
                           ELSE << >>
             IN  [ memo |-> (cache_key :> result) @@ memo, result |-> result ]
      ELSE LET st == DpPieces(p2b, [ memo |-> memo, solutions |-> << >> ],
                              board_mask, used_pieces, target, 0)
           IN  [ memo |-> (cache_key :> st.solutions) @@ st.memo,
                 result |-> st.solutions ]

(***************************************************************************)
(* OptimizedDPSolver.  Its pos_to_index is built as the fast solver's      *)
(* pos_to_bit; its covered mask does not hold the target cells.            *)
(***************************************************************************)
Opt_rotate_90(piece) ==
  LET rows == Len(piece)
      cols == Len(piece[1])
  IN  [ i \in 1 .. cols |-> [ j \in 1 .. rows |-> piece[rows + 1 - j][i] ] ]

\* mutant: the flipped variant is not added
Opt_OrientationsAdded_NoFlip(current) == << normalize_piece(current) >>

\* what one pass of the loop adds to the set
Opt_OrientationsAdded(current) ==
  << normalize_piece(current), normalize_piece(flip_horizontal(current)) >>

\* listed in order of first insertion, as generate_all_orientations above
generate_orientations(piece) ==
  LET c1 == Opt_rotate_90(piece)
      c2 == Opt_rotate_90(c1)
      c3 == Opt_rotate_90(c2)
  IN  Distinct(Opt_OrientationsAdded(piece) \o Opt_OrientationsAdded(c1) \o
               Opt_OrientationsAdded(c2) \o Opt_OrientationsAdded(c3))

\* the placement dict of (orientation, start_r, start_c); valid is FALSE
\* where the loop breaks
Opt_Placement(p2i, orientation, start_r, start_c) ==
  LET piece_positions == piece_to_positions(orientation)
      cells == [ i \in 1 .. Len(piece_positions) |->
                   << start_r + piece_positions[i][1],
                      start_c + piece_positions[i][2] >> ]
      valid == \A i \in 1 .. Len(cells) :
                 /\ cells[i][1] >= 0 /\ cells[i][1] < board_h
                 /\ cells[i][2] >= 0 /\ cells[i][2] < board_w
                 /\ BoardAt(cells[i][1], cells[i][2]) # ""
                 /\ cells[i] \in DOMAIN p2i
      valid_positions == IF valid THEN [ i \in 1 .. Len(cells) |-> p2i[cells[i]] ]
                         ELSE << >>
  IN  [ valid |-> valid /\ valid_positions # << >>,
        placement |-> [ mask |-> Range(valid_positions),
                        positions |-> valid_positions,
                        start |-> << start_r, start_c >>,
                        piece_positions |-> piece_positions ] ]

compute_piece_placements(p2i, piece) ==
  LET orientations == generate_orientations(piece)
      tried == Flatten([ k \in 1 .. Len(orientations) |->
                 [ n \in 1 .. (board_h * board_w) |->
                     Opt_Placement(p2i, orientations[k],
                                   RowMajor(board_h, board_w)[n][1],
                                   RowMajor(board_h, board_w)[n][2]) ] ])
      kept  == SelectSeq(tried, LAMBDA t : t.valid)
  IN  [ k \in 1 .. Len(kept) |-> kept[k].placement ]

piece_placements ==
  [ p \in PieceIds |-> compute_piece_placements(PosToBitInit, PIECES[p + 1]) ]

Opt_create_target_mask(p2i, day, month_abbr, day_abbr) ==
  LET day_str == Str(day)
  IN  { p2i[q] : q \in { rc \in Range(RowMajor(board_h, board_w)) \cap DOMAIN p2i :
          BoardAt(rc[1], rc[2]) \in { day_str, month_abbr, day_abbr } } }

\* for each piece, (piece_idx, placement) in the order of the inner loop of
\* solve_recursive
OptTries ==
  [ p \in PieceIds |->
    [ k \in 1 .. Len(piece_placements[p]) |-> << p, piece_placements[p][k] >> ] ]

RECURSIVE solve_recursive(_, _, _, _)
RECURSIVE OptLoop(_, _, _, _, _, _, _)
RECURSIVE OptPieces(_, _, _, _, _)

\* mutant: placements over a target cell are not skipped
OptTry_CoversTargets(st, covered_mask, used_pieces, target, try) ==
  IF covered_mask \cap try[2].mask # {} THEN st
  ELSE
    LET sub == solve_recursive(st.memo, covered_mask \cup try[2].mask,
                               used_pieces \cup { try[1] }, target)
    IN  [ memo |-> sub.memo,
          solutions |-> st.solutions \o
            [ i \in 1 .. Len(sub.result) |->
                [ sub.result[i] EXCEPT
                    !.piece = (try[1] :> try[2]) @@ sub.result[i].piece ] ] ]

\* the body of the inner loop, with its two "continue" tests
OptTry(st, covered_mask, used_pieces, target, try) ==
  IF covered_mask \cap try[2].mask # {} THEN st
  ELSE IF try[2].mask \cap target # {} THEN st
  ELSE
    LET sub == solve_recursive(st.memo, covered_mask \cup try[2].mask,
                               used_pieces \cup { try[1] }, target)
    IN  [ memo |-> sub.memo,
          solutions |-> st.solutions \o
            [ i \in 1 .. Len(sub.result) |->
                [ sub.result[i] EXCEPT
                    !.piece = (try[1] :> try[2]) @@ sub.result[i].piece ] ] ]

\* placements lo..hi of one piece, in order (the test orders the evaluation)
OptLoop(st, covered_mask, used_pieces, target, piece_idx, lo, hi) ==
  IF lo > hi THEN st
  ELSE IF lo = hi
    THEN OptTry(st, covered_mask, used_pieces, target, OptTries[piece_idx][lo])
  ELSE LET mid   == (lo + hi) \div 2
           first == OptLoop(st, covered_mask, used_pieces, target, piece_idx, lo, mid)
       IN  IF DOMAIN first = {} THEN first
           ELSE OptLoop(first, covered_mask, used_pieces, target, piece_idx,
                        mid + 1, hi)

\* the outer loop from piece_idx on, with its "continue"
OptPieces(st, covered_mask, used_pieces, target, piece_idx) ==
  IF piece_idx = Len(PIECES) THEN st
  ELSE IF piece_idx \in used_pieces
    THEN OptPieces(st, covered_mask, used_pieces, target, piece_idx + 1)
  ELSE LET after == OptLoop(st, covered_mask, used_pieces, target, piece_idx,
                            1, Len(OptTries[piece_idx]))
       IN  IF DOMAIN after = {} THEN after
           ELSE OptPieces(after, covered_mask, used_pieces, target, piece_idx + 1)

solve_recursive(memo, covered_mask, used_pieces, target) ==
  LET cache_key == << covered_mask, used_pieces >>
  IN  IF cache_key \in DOMAIN memo
        THEN [ memo |-> memo, result |-> memo[cache_key] ]
      ELSE IF used_pieces = PieceIds
        THEN LET result == IF covered_mask \cup target = 0 .. (total_bits - 1)
                             THEN << [ covered_mask |-> covered_mask,
                                       used_pieces |-> used_pieces,
                                       piece |-> << >> ] >>
                           ELSE << >>
             IN  [ memo |-> (cache_key :> result) @@ memo, result |-> result ]
      ELSE IF covered_mask \cap target # {}
        THEN [ memo |-> (cache_key :> << >>) @@ memo, result |-> << >> ]
      ELSE LET st == OptPieces([ memo |-> memo, solutions |-> << >> ],
                               covered_mask, used_pieces, target, 0)
           IN  [ memo |-> (cache_key :> st.solutions) @@ st.memo,
                 result |-> st.solutions ]

(***************************************************************************)
(* The four search routines on positions late in the game: the pieces in   *)
(* S lie as in a tiling the fast solver found, and one more piece may have *)
(* been put anywhere it fits.  The exhaustive solvers cannot finish on an  *)
(* empty board; on these positions they can.                               *)
(***************************************************************************)
\* pieces not yet placed in a position
MaxRemaining == 2

\* the dates whose positions are taken
EndgameDates == { TestDates[1] }

\* the move list _solve_mask returns for each of them
FastSolutions ==
  [ q \in EndgameDates |->
      Iterate(CellToOptionsInit, BitToPosInit,
              BeginQuery(PosToBitInit, IdleRun, q), LogMaxSteps).moves.list ]

\* the (piece, mask) pairs that fit a position
Fitting(board_mask, used) ==
  UNION { { << p, mask >> :
              mask \in { m \in Range(PlacementsByPieceInit[p]) : m \cap board_mask = {} } } :
          p \in PieceIds \ used }

PlacedMask(placed) == UNION { placed[i][2] : i \in 1 .. Len(placed) }

PlacedPieces(placed) == { placed[i][1] : i \in 1 .. Len(placed) }

\* the brute-force solver's board with the pieces of placed on it
BoardOf(b2p, q, placed) ==
  LET initial == create_initial_board_state(q[1], FirstKey(MONTHS_ITEMS, q[2]),
                                            FirstKey(DAYS_ITEMS, q[3]))
  IN  [ r \in DOMAIN initial |-> [ c \in DOMAIN initial[r] |->
        LET on == { i \in 1 .. Len(placed) :
                      \E bit \in placed[i][2] : b2p[bit] = << r, c >> }
        IN  IF on = {} THEN initial[r][c] ELSE placed[CHOOSE i \in on : TRUE][1] + 1 ] ]

EndgameProbe(q, target, placed) ==
  [ fn |-> "endgame", pc |-> "call", query |-> q, target |-> target,
    placed |-> placed, fast |-> FALSE, brute |-> << >>, board_before |-> << >>,
    board_after |-> << >>, dp |-> << >>, opt |-> << >> ]

InitEndgame ==
  /\ Constructed
  /\ \E q \in EndgameDates :
       LET sol    == FastSolutions[q]
           target == target_mask(PosToBitInit, q[1], FirstKey(MONTHS_ITEMS, q[2]),
                                 FirstKey(DAYS_ITEMS, q[3]))
       IN  \E S \in SUBSET PieceIds :
             /\ Cardinality(PieceIds \ S) <= MaxRemaining
             /\ LET placed == SelectSeq(sol, LAMBDA m : m[1] \in S)
                IN  \/ probe = EndgameProbe(q, target, placed)
                    \/ \E extra \in Fitting(target \cup PlacedMask(placed), S) :
                         probe = EndgameProbe(q, target, Append(placed, extra))

EndgameCall ==
  /\ probe.fn = "endgame" /\ probe.pc = "call"
  /\ LET board_mask  == probe.target \cup PlacedMask(probe.placed)
         used        == PlacedPieces(probe.placed)
         board_state == BoardOf(bit_to_pos, probe.query, probe.placed)
         brute == solve_backtrack(board_state, 0, used)
     IN  probe' = [ probe EXCEPT
           !.pc = "returned",
           !.fast = Iterate(cell_to_options, bit_to_pos,
                            FirstCall([ IdleRun EXCEPT !.pc = "search",
                                                       !.query = probe.query,
                                                       !.target = probe.target,
                                                       !.calls = 1 ],
                                      board_mask, used),
                            LogMaxSteps).found,
           !.brute = brute.solutions,
           !.board_before = board_state,
           !.board_after = brute.board_state,
           !.dp = solve_dp(pos_to_bit, << >>, board_mask, used, probe.target).result,
           !.opt = solve_recursive(<< >>, board_mask \ probe.target, used,
                                   probe.target).result ]
  /\ UNCHANGED << tables, run, ref >>

NextEndgame == EndgameCall

SpecEndgame == InitEndgame /\ [][NextEndgame]_vars

(***************************************************************************)
(* solve_recursive alone on the same positions, with the states it visits. *)
(***************************************************************************)
InitRecursive ==
  /\ Constructed
  /\ \E q \in EndgameDates :
       LET sol    == FastSolutions[q]
           target == Opt_create_target_mask(PosToBitInit, q[1],
                                            FirstKey(MONTHS_ITEMS, q[2]),
                                            FirstKey(DAYS_ITEMS, q[3]))
       IN  \E S \in SUBSET PieceIds :
             /\ Cardinality(PieceIds \ S) <= MaxRemaining
             /\ LET placed == SelectSeq(sol, LAMBDA m : m[1] \in S)
                IN  \/ probe = [ fn |-> "recursive", pc |-> "call", query |-> q,
                                 target |-> target, placed |-> placed,
                                 returned |-> [ memo |-> << >>, result |-> << >> ] ]
                    \/ \E extra \in Fitting(target \cup PlacedMask(placed), S) :
                         probe = [ fn |-> "recursive", pc |-> "call", query |-> q,
                                   target |-> target,
                                   placed |-> Append(placed, extra),
                                   returned |-> [ memo |-> << >>, result |-> << >> ] ]

\* solve_recursive(covered_mask, used_pieces, target_mask) from call to
\* return on an empty memo; returned holds its result and the memo it leaves,
\* whose keys are the states it visited
RecursiveCall ==
  /\ probe.fn = "recursive" /\ probe.pc = "call"
  /\ probe' = [ probe EXCEPT
       !.pc = "returned",
       !.returned = solve_recursive(<< >>, PlacedMask(probe.placed),
                                    PlacedPieces(probe.placed), probe.target) ]
  /\ UNCHANGED << tables, run, ref >>

NextRecursive == RecursiveCall

SpecRecursive == InitRecursive /\ [][NextRecursive]_vars

(***************************************************************************)
(* can_place_piece, place_piece and remove_piece as test_piece_placement   *)
(* uses them: on a board, one orientation of one piece at one position.    *)
(***************************************************************************)
\* the board of test_piece_placement, every cell 0, and the initial boards
\* of the dates above
PlaceBoards ==
  { [ r \in 0 .. (board_h - 1) |-> [ c \in 0 .. (board_w - 1) |-> 0 ] ] } \cup
  { create_initial_board_state(q[1], FirstKey(MONTHS_ITEMS, q[2]),
                               FirstKey(DAYS_ITEMS, q[3])) : q \in WholeInputs }

InitPlace ==
  /\ Constructed
  /\ probe = [ fn |-> "place", pc |-> "idle", board_state |-> << >>, piece |-> 0,
               orientation |-> << >>, start_row |-> 0, start_col |-> 0,
               can_place |-> FALSE, placed |-> << >>, removed |-> << >> ]

\* can_place_piece and, if it allows, place_piece then remove_piece
PlaceRemoveCall(board_state, p, k, start_row, start_col) ==
  /\ probe.fn = "place" /\ probe.pc = "idle"
  /\ k <= Len(all_piece_orientations[p])
  /\ LET piece     == all_piece_orientations[p][k]
         can_place == can_place_piece(board_state, piece, start_row, start_col)
         placed    == IF can_place
                        THEN place_piece(board_state, piece, start_row, start_col, p + 1)
                      ELSE board_state
     IN  probe' = [ probe EXCEPT
           !.pc = "returned", !.board_state = board_state, !.piece = p,
           !.orientation = piece, !.start_row = start_row, !.start_col = start_col,
           !.can_place = can_place,
           !.placed = placed,
           !.removed = IF can_place
                         THEN remove_piece(placed, piece, start_row, start_col)
                       ELSE placed ]
  /\ UNCHANGED << tables, run, ref >>

NextPlace ==
  \E board_state \in PlaceBoards : \E p \in PieceIds :
    \E k \in 1 .. Len(all_piece_orientations[p]) :
    \E start_row \in 0 .. (board_h - 1) : \E start_col \in 0 .. (board_w - 1) :
      PlaceRemoveCall(board_state, p, k, start_row, start_col)

SpecPlace == InitPlace /\ [][NextPlace]_vars

(***************************************************************************)
(* solve_backtrack alone, on the same positions and on positions with four *)
(* pieces unused that have more than one tiling.                           *)
(***************************************************************************)
\* sets of four unused pieces with which a position of these dates has more
\* than one tiling (with fewer pieces unused none has)
DeepLeft == { { 4, 6, 8, 9 }, { 0, 1, 2, 5 } }

BacktrackProbe(q, target, placed) ==
  [ fn |-> "backtrack", pc |-> "call", query |-> q, target |-> target,
    placed |-> placed, solutions |-> << >>, board_before |-> << >>,
    board_after |-> << >>, used_before |-> {}, used_after |-> {} ]

InitBacktrack ==
  /\ Constructed
  /\ \E q \in EndgameDates :
       LET sol    == FastSolutions[q]
           target == target_mask(PosToBitInit, q[1], FirstKey(MONTHS_ITEMS, q[2]),
                                 FirstKey(DAYS_ITEMS, q[3]))
       IN  \E S \in SUBSET PieceIds :
             LET placed == SelectSeq(sol, LAMBDA m : m[1] \in S)
             IN  \/ /\ Cardinality(PieceIds \ S) <= MaxRemaining \/ (PieceIds \ S) \in DeepLeft
                    /\ probe = BacktrackProbe(q, target, placed)
                 \/ /\ Cardinality(PieceIds \ S) <= MaxRemaining
                    /\ \E extra \in Fitting(target \cup PlacedMask(placed), S) :
                         probe = BacktrackProbe(q, target, Append(placed, extra))

\* solve_backtrack(board_state, 0, used_pieces) from call to return, with
\* the caller's board and set as they are before and after
BacktrackCall ==
  /\ probe.fn = "backtrack" /\ probe.pc = "call"
  /\ LET used        == PlacedPieces(probe.placed)
         board_state == BoardOf(bit_to_pos, probe.query, probe.placed)
         returned    == solve_backtrack(board_state, 0, used)
     IN  probe' = [ probe EXCEPT
           !.pc = "returned",
           !.solutions = returned.solutions,
           !.board_before = board_state,
           !.board_after = returned.board_state,
           !.used_before = used,
           !.used_after = returned.used_pieces ]
  /\ UNCHANGED << tables, run, ref >>

NextBacktrack == BacktrackCall

SpecBacktrack == InitBacktrack /\ [][NextBacktrack]_vars

(***************************************************************************)
(* The orientation generators of the fast and the brute-force solver, piece *)
(* by piece, and the geometry helpers applied again to what they generate.  *)
(***************************************************************************)
Transforms == { "rot90", "flip_h", "flip_v" }

\* the 0/1 matrix of a list of (dr, dc) cells with top-left origin
CellsToMat(cells) ==
  LET h == SetMax({ cells[i][1] : i \in 1 .. Len(cells) }) + 1
      w == SetMax({ cells[i][2] : i \in 1 .. Len(cells) }) + 1
  IN  [ i \in 1 .. h |-> [ j \in 1 .. w |->
        IF << i - 1, j - 1 >> \in Range(cells) THEN 1 ELSE 0 ] ]

\* _rot90, _flip_h or _flip_v on an orientation, shifted to origin again
Transformed(t, cells) ==
  LET mat == CellsToMat(cells)
  IN  OrientCells(IF t = "rot90" THEN Rot90(mat)
                  ELSE IF t = "flip_h" THEN FlipH(mat)
                  ELSE FlipV(mat))

\* rotate_90, flip_horizontal or flip_vertical on an orientation, normalised
BruteTransformed(t, piece) ==
  normalize_piece(IF t = "rot90" THEN rotate_90(piece)
                  ELSE IF t = "flip_h" THEN flip_horizontal(piece)
                  ELSE flip_vertical(piece))

InitOrient ==
  /\ Constructed
  /\ probe = [ fn |-> "orient", pc |-> "idle", piece |-> 0, outs |-> << >>,
               brute |-> << >>, opt |-> << >>, k |-> 0, transform |-> "",
               image |-> << >>, brute_image |-> << >> ]

\* _gen_orientations(PIECES[p]), generate_all_orientations(pieces[p]) and
\* the Optimized solver's generate_orientations(pieces[p])
GenOrientationsCall(p) ==
  /\ probe.fn = "orient" /\ probe.pc = "idle"
  /\ probe' = [ probe EXCEPT
       !.pc = "generated", !.piece = p,
       !.outs = gen_orientations(PIECES[p + 1]),
       !.brute = generate_all_orientations(PIECES[p + 1]),
       !.opt = generate_orientations(PIECES[p + 1]) ]
  /\ UNCHANGED << tables, run, ref >>

\* a helper applied to the k-th orientation of each list
TransformCall(k, t) ==
  /\ probe.fn = "orient" /\ probe.pc = "generated"
  /\ k <= Len(probe.outs) \/ k <= Len(probe.brute)
  /\ probe' = [ probe EXCEPT
       !.pc = "transformed", !.k = k, !.transform = t,
       !.image = IF k <= Len(probe.outs)
                   THEN Transformed(t, probe.outs[k]) ELSE << >>,
       !.brute_image = IF k <= Len(probe.brute)
                         THEN BruteTransformed(t, probe.brute[k]) ELSE << >> ]
  /\ UNCHANGED << tables, run, ref >>

NextOrient ==
  \/ \E p \in PieceIds : GenOrientationsCall(p)
  \/ \E k \in 1 .. (Len(probe.outs) + Len(probe.brute)), t \in Transforms :
       TransformCall(k, t)

SpecOrient == InitOrient /\ [][NextOrient]_vars

(***************************************************************************)
(* Two solve_for_date invocations in flight on one solver instance (two    *)
(* threads calling the same object).  Each invocation has the locals of    *)
(* its own _solve_mask call: the solution list and the cache of its dfs;   *)
(* here run holds the locals of the first and ref those of the second.     *)
(* Both read the instance's tables.  A thread switch can fall between any  *)
(* two steps of dfs.                                                       *)
(***************************************************************************)
PairInputs == Range(SubSeq(SteppedDates, 1, NumSteppedDates))

\* solve_for_date(q) run alone, from call to return
AloneOnSolver ==
  [ q \in PairInputs |->
      Iterate(CellToOptionsInit, BitToPosInit,
              BeginQuery(PosToBitInit, IdleRun, q), LogMaxSteps) ]

\* the first thread calls solve_for_date(q); ref is the call the instance
\* saw before it, finished or not
PairCallA(q) ==
  /\ run.pc = "idle" /\ ref.query # q
  /\ run' = BeginQuery(pos_to_bit, ref, q)
  /\ UNCHANGED << tables, ref, probe >>

PairCallB(q) ==
  /\ ref.pc = "idle" /\ run.query # q
  /\ ref' = BeginQuery(pos_to_bit, run, q)
  /\ UNCHANGED << tables, run, probe >>

\* the first thread runs one step of its dfs, or returns
PairStepA ==
  /\ run.pc = "search"
  /\ run' = StepOnce(cell_to_options, bit_to_pos, run)
  /\ UNCHANGED << tables, ref, probe >>

\* mutant: dfs looks its arguments up in the other call's cache as well
PairStepB_SharedCache ==
  /\ ref.pc = "search"
  /\ ref' = StepOnce(cell_to_options, bit_to_pos,
                     [ ref EXCEPT !.cache = @ @@ run.cache ])
  /\ UNCHANGED << tables, run, probe >>

PairStepB ==
  /\ ref.pc = "search"
  /\ ref' = StepOnce(cell_to_options, bit_to_pos, ref)
  /\ UNCHANGED << tables, run, probe >>

NextPair ==
  \/ \E q \in PairInputs : PairCallA(q)
  \/ \E q \in PairInputs : PairCallB(q)
  \/ PairStepA
  \/ PairStepB

SpecPair == Init /\ [][NextPair]_vars

(***************************************************************************)
(* A caller that raises a cancellation flag before the solver's first      *)
(* query.  The flag is the caller's: solve_for_date takes the three        *)
(* numbers of the date and nothing else, and neither it, _solve_mask nor   *)
(* dfs reads anything but their arguments and the instance's tables, so    *)
(* the queries run as in Next.                                             *)
(***************************************************************************)
InitCancel == Constructed /\ probe = [ fn |-> "cancel", flag |-> FALSE ]

RequestCancel ==
  /\ probe.fn = "cancel" /\ ~ probe.flag
  /\ run.pc = "idle" /\ ref.pc = "idle"
  /\ probe' = [ probe EXCEPT !.flag = TRUE ]
  /\ UNCHANGED << tables, run, ref >>

NextCancel == RequestCancel \/ Next

SpecCancel == InitCancel /\ [][NextCancel]_vars

(***************************************************************************)
(* Properties                                                              *)
(***************************************************************************)
Disjoint(a, b) == a \cap b = {}

MoveMasks(moves) == { moves[i][2] : i \in 1 .. Len(moves) }

\* C1: every move list _solve_mask returns has exactly 10 entries, one per
\* piece id 0..9, with placement masks pairwise disjoint, disjoint from the
\* target mask, and covering, with the target mask, exactly valid_mask.
C1_SolutionIsExactCover ==
  (run.pc = "done" /\ ~ run.moves.is_none) =>
    LET m == run.moves.list
    IN  /\ Len(m) = 10
        /\ { m[i][1] : i \in 1 .. Len(m) } = 0 .. 9
        /\ \A i, j \in 1 .. Len(m) : i # j => Disjoint(m[i][2], m[j][2])
        /\ \A i \in 1 .. Len(m) : Disjoint(m[i][2], run.target)
        /\ UNION MoveMasks(m) \cup run.target = valid_mask

C1_Witness ==
  /\ run.pc = "done" /\ ~ run.moves.is_none
  /\ run.query = << 15, 3, 5 >> /\ Len(run.moves.list) = 10

C3_FirstDateHasSolution ==
  (run.pc = "done" /\ run.query = << 1, 1, 1 >>) => Len(run.result) >= 1

C3_Witness ==
  run.pc = "done" /\ run.query = << 1, 1, 1 >> /\ Len(run.result) = 1

NoRepeats(list) == \A i, j \in 1 .. Len(list) : list[i] = list[j] => i = j

\* C4: the lists solve_dp and solve_recursive return hold no two solutions
\* with the same (piece, placement) pairs.
C4_NoDuplicateTilings ==
  (probe.fn = "endgame" /\ probe.pc = "returned") =>
    (NoRepeats(probe.dp) /\ NoRepeats(probe.opt))

\* C5: the four solvers return the same number of solutions (the fast one
\* returns one board when its search succeeds, none otherwise).
C5_SameCountInAllSolvers ==
  (probe.fn = "endgame" /\ probe.pc = "returned") =>
    /\ Len(probe.brute) = Len(probe.dp)
    /\ Len(probe.dp) = Len(probe.opt)
    /\ Len(probe.opt) = (IF probe.fast THEN 1 ELSE 0)

\* the board cells whose label is the day numeral, the month label or the
\* weekday label of query q (a number with no label contributes no cell)
ResolvedCells(q) ==
  { pos \in Range(RowMajor(board_h, board_w)) :
      \/ BoardAt(pos[1], pos[2]) = Str(q[1])
      \/ q[2] \in 1 .. Len(MONTHS) /\ BoardAt(pos[1], pos[2]) = MONTHS[q[2]]
      \/ q[3] \in 1 .. Len(DAYS) /\ BoardAt(pos[1], pos[2]) = DAYS[q[3]] }

\* C6: a query whose labels resolve to fewer than 3 target cells is rejected
\* and the search routine is never entered for it.
C6_UnresolvedQueryNotSearched ==
  (run.query # << >> /\ Cardinality(ResolvedCells(run.query)) < 3) =>
    (run.pc = "raised" /\ run.calls = 0)

\* C7: whatever the solver was asked before, a query returns what the same
\* query returns on a freshly constructed solver, and the cache it searches
\* with holds no entry of an earlier query.
C7_ResultAsOnFreshSolver ==
  /\ (run.pc = "done" /\ ref.pc = "done") =>
       (run.moves = ref.moves /\ run.result = ref.result)
  /\ run.pc = "search" => run.cache = ref.cache

C7_Witness ==
  /\ run.pc = "done" /\ ref.pc = "done" /\ run.reused
  /\ run.query = << 2, 2, 1 >> /\ run.result = ref.result /\ Len(run.result) = 1

\* C8: the tables built by the constructor (pos_to_bit, bit_to_pos,
\* placements_by_piece, cell_to_options) have, in every state, before, during
\* and after every query, the values the constructor gave them.
C8_TablesNeverChange ==
  /\ pos_to_bit = PosToBitInit
  /\ bit_to_pos = BitToPosInit
  /\ placements_by_piece = PlacementsByPieceInit
  /\ cell_to_options = CellToOptionsInit

C8_Witness ==
  /\ run.reused /\ run.pc = "done" /\ ~ run.moves.is_none
  /\ cell_to_options = CellToOptionsInit /\ pos_to_bit = PosToBitInit

DayCell(d) == << (d - 1) \div 4, (d - 1) % 4 >>

MonthCell(m) ==
  IF m = 1 THEN << 0, 4 >>
  ELSE IF m = 12 THEN << 6, 4 >>
  ELSE << 1 + ((m - 2) \div 2), 4 + ((m - 2) % 2) >>

WeekdayCell(w) == << w - 1, 6 >>

HeartBits == { PosToBitInit[pos] : pos \in { q \in DOMAIN PosToBitInit :
                                               BoardAt(q[1], q[2]) = "HEART" } }

\* C10: for every day 1..31, month and weekday the target mask has exactly
\* three bits: those of the cell labelled with the day numeral, of the cell
\* of the month and of the cell of the weekday; no other cell (not "10" or
\* "11" for day 1, not a decorative cell) is marked.  The three solvers'
\* builders agree.
C10_TargetIsTheThreeDateCells ==
  (probe.fn = "target" /\ probe.pc = "returned") =>
    LET cells == { DayCell(probe.day), MonthCell(probe.month),
                   WeekdayCell(probe.weekday) }
    IN  /\ probe.fast = { PosToBitInit[pos] : pos \in cells }
        /\ Cardinality(probe.fast) = 3
        /\ Disjoint(probe.fast, HeartBits)
        /\ probe.dp = probe.fast
        /\ Range(probe.positions) = cells /\ Len(probe.positions) = 3

C10_Witness ==
  /\ probe.fn = "target" /\ probe.pc = "returned" /\ probe.day = 1
  /\ probe.fast = { 0, 4, 6 }


\* the cells of a board that hold value v
CellsHolding(board, v) ==
  { pos \in Range(RowMajor(board_h, board_w)) : board[pos[1]][pos[2]] = v }

\* C11: in the board solve_for_date returns every cell is blank (-2), target
\* (-1) or a piece id 1..10: -2 exactly on the cells with an empty label, -1
\* exactly on the date cells, 0 nowhere, and id p+1 exactly on the cells of
\* the placement chosen for piece p.
C11_BoardCellsAreLabelled ==
  (run.pc = "done" /\ run.result # << >>) =>
    LET board == run.result[1]
        m     == run.moves.list
    IN  /\ Len(run.result) = 1
        /\ \A pos \in Range(RowMajor(board_h, board_w)) :
             /\ board[pos[1]][pos[2]] \in { -2, -1 } \cup (1 .. 10)
             /\ board[pos[1]][pos[2]] = -2 <=> BoardAt(pos[1], pos[2]) = ""
             /\ board[pos[1]][pos[2]] = -1 <=> pos \in ResolvedCells(run.query)
        /\ \A p \in PieceIds :
             \E k \in 1 .. Len(m) :
               /\ m[k][1] = p
               /\ CellsHolding(board, p + 1) = { BitToPosInit[bit] : bit \in m[k][2] }

C11_Witness ==
  /\ run.pc = "done" /\ run.query = << 1, 1, 1 >> /\ Len(run.result) = 1
  /\ CellsHolding(run.result[1], -1) = { << 0, 0 >>, << 0, 4 >>, << 0, 6 >> }
  /\ Cardinality(CellsHolding(run.result[1], 4)) = 5


\* C12: a 90-degree rotation, a horizontal flip or a vertical flip of any
\* generated orientation of a piece, shifted to origin, has the cells of an
\* orientation already generated for that piece (fast and brute-force
\* generators).
C12_OrientationsClosed ==
  (probe.fn = "orient" /\ probe.pc = "transformed") =>
    /\ probe.k <= Len(probe.outs) =>
         \E o \in Range(probe.outs) : Range(o) = Range(probe.image)
    /\ probe.k <= Len(probe.brute) => probe.brute_image \in Range(probe.brute)

C12_Witness ==
  /\ probe.fn = "orient" /\ probe.pc = "transformed"
  /\ probe.piece = 0 /\ probe.transform = "rot90" /\ probe.k = 1
  /\ probe.image # probe.outs[1] /\ probe.image \in Range(probe.outs)
  /\ probe.brute_image \in Range(probe.brute)

\* C13: _gen_orientations yields between 1 and 8 orientations per piece, no
\* two with the same cells, and the straight five-cell line (piece 3) yields
\* exactly 2.
C13_OrientationCount ==
  (probe.fn = "orient" /\ probe.pc # "idle") =>
    /\ Len(probe.outs) \in 1 .. 8
    /\ \A i, j \in 1 .. Len(probe.outs) :
         Range(probe.outs[i]) = Range(probe.outs[j]) => i = j
    /\ probe.piece = 3 => Len(probe.outs) = 2

C13_Witness ==
  /\ probe.fn = "orient" /\ probe.pc = "generated" /\ probe.piece = 3
  /\ Len(probe.outs) = 2
  /\ Range(probe.outs[1]) # Range(probe.outs[2])


RECURSIVE SumSeq(_)
SumSeq(s) == IF s = << >> THEN 0 ELSE Head(s) + SumSeq(Tail(s))

C15_BadNumberReturnsEmpty ==
  (/\ run.query # << >>
   /\ ~ (HasKey(MONTHS_ITEMS, run.query[2]) /\ HasKey(DAYS_ITEMS, run.query[3]))) =>
    /\ run.pc = "done" /\ run.result = << >>
    /\ run.target = {} /\ run.calls = 0


\* the entries of r's cache are states of r's own search, and r, once
\* returned, has the moves and the board of the same query run alone
OwnSearch(r) ==
  /\ \A key \in DOMAIN r.cache : r.target \subseteq key[1]
  /\ \A i \in 1 .. Len(r.solution) : Disjoint(r.solution[i][2], r.target)
  /\ r.pc = "done" =>
       /\ r.moves = AloneOnSolver[r.query].moves
       /\ r.result = AloneOnSolver[r.query].result

\* C16: two solve_for_date invocations with different dates interleaved on
\* one solver share no mutable state: each has its own cache and its own
\* solution list, the tables are only read, and each returns what it
\* returns when run alone.
C16_InterleavedQueriesIndependent ==
  /\ OwnSearch(run) /\ OwnSearch(ref)
  /\ pos_to_bit = PosToBitInit /\ bit_to_pos = BitToPosInit
  /\ placements_by_piece = PlacementsByPieceInit
  /\ cell_to_options = CellToOptionsInit

\* both invocations in the middle of their searches, then the first returned
\* while the second still searches
C16_Witness ==
  /\ run.pc = "done" /\ ref.pc = "search" /\ run.query # ref.query
  /\ Len(run.result) = 1 /\ run.result = AloneOnSolver[run.query].result
  /\ ref.cache # << >> /\ ref.solution # << >> /\ ~ ref.reused


\* C17: with the cancellation flag set before the first recursive call, the
\* search returns the outcome Cancelled with zero placements attempted (no
\* dfs frame is opened, nothing is cached), and Cancelled is not reported
\* as "no solution".
C17_CancelledBeforeFirstCall ==
  (/\ probe.fn = "cancel" /\ probe.flag
   /\ run.query # << >> /\ run.pc # "raised") =>
    /\ run.pc = "cancelled"
    /\ run.stack = << >> /\ run.cache = << >> /\ run.solution = << >>
    /\ run.result # << >>


\* the lowest bit index not in mask
LowestFree(mask) ==
  CHOOSE b \in valid_mask \ mask : \A c \in valid_mask \ mask : b <= c

\* the cells covered before the k-th move of a move list
CoveredBefore(target, moves, k) ==
  target \cup UNION { moves[i][2] : i \in 1 .. (k - 1) }

\* C18: every dfs call in progress branches on the lowest bit index not in
\* its board_mask and has descended by a placement registered in
\* cell_to_options for that cell; in the returned move list the k-th
\* placement covers the lowest-index cell left uncovered by the target mask
\* and the placements before it.
C18_LowestCellFirst ==
  /\ \A i \in 1 .. Len(run.stack) :
       /\ run.stack[i].bit = LowestFree(run.stack[i].board_mask)
       /\ i < Len(run.stack) =>
            \E opt \in Range(cell_to_options[run.stack[i].bit]) :
              /\ run.stack[i + 1].board_mask = run.stack[i].board_mask \cup opt[2]
              /\ run.stack[i + 1].used_mask = run.stack[i].used_mask \cup { opt[1] }
  /\ (run.pc = "done" /\ ~ run.moves.is_none) =>
       \A k \in 1 .. Len(run.moves.list) :
         LET bit == LowestFree(CoveredBefore(run.target, run.moves.list, k))
         IN  /\ bit \in run.moves.list[k][2]
             /\ run.moves.list[k] \in Range(cell_to_options[bit])

C18_Witness ==
  /\ run.pc = "done" /\ run.query = << 15, 3, 5 >> /\ Len(run.moves.list) = 10
  /\ 0 \in run.moves.list[1][2]
  /\ LowestFree(CoveredBefore(run.target, run.moves.list, 10)) \in run.moves.list[10][2]


\* C19: for every search state (board_mask, used_mask) whose memoized dfs has
\* returned within the query, the value returned (and cached) is the value
\* of the same search run without a cache, and so is the query's outcome.
C19_MemoizationKeepsAnswer ==
  /\ \A key \in DOMAIN run.cache :
       run.cache[key] = dfs_uncached(cell_to_options, key[1], key[2])
  /\ run.pc = "done" => run.found = dfs_uncached(cell_to_options, run.target, {})

C19_Witness ==
  /\ run.pc = "done" /\ run.query = << 1, 1, 1 >> /\ run.hits > 0
  /\ \E key \in DOMAIN run.cache : ~ run.cache[key]
  /\ run.cache[<< run.target, {} >>]


\* the total cell count of the pieces in used
UsedArea(used) ==
  SumSeq([ p \in 1 .. NumPieces |->
             IF (p - 1) \in used THEN Len(OrientCells(PIECES[p])) ELSE 0 ])

\* the (board_mask, used_mask) pairs dfs has been called with: the calls in
\* progress and the calls that returned
SearchStates(r) ==
  { Key(r.stack[i]) : i \in 1 .. Len(r.stack) } \cup DOMAIN r.cache

\* C20: in a query whose target mask has exactly three bits, every search
\* state has as many bits in board_mask as 3 plus the cells of the pieces in
\* used_mask, and board_mask is valid_mask exactly when all ten pieces are
\* used.
C20_MaskCountsUsedArea ==
  Cardinality(run.target) = 3 =>
    \A st \in SearchStates(run) :
      /\ Cardinality(st[1]) = 3 + UsedArea(st[2])
      /\ st[1] = valid_mask <=> st[2] = all_used_mask

C20_Witness ==
  /\ run.pc = "done" /\ run.query = << 1, 1, 1 >> /\ Cardinality(run.target) = 3
  /\ << valid_mask, all_used_mask >> \in DOMAIN run.cache
  /\ \E st \in SearchStates(run) :
       Cardinality(st[2]) = 5 /\ Cardinality(st[1]) = 3 + UsedArea(st[2])


\* the filled cells of piece p_idx as (row, column) pairs
ShapeCells(p_idx) ==
  LET mat == PIECES[p_idx + 1]
  IN  { rc \in (0 .. (Len(mat) - 1)) \X (0 .. (Len(mat[1]) - 1)) :
          mat[rc[1] + 1][rc[2] + 1] = 1 }

\* the image of a cell under the s-th symmetry of the square
SquareImage(s, rc) ==
  CASE s = 1 -> << rc[1], rc[2] >>
    [] s = 2 -> << rc[2], 0 - rc[1] >>
    [] s = 3 -> << 0 - rc[1], 0 - rc[2] >>
    [] s = 4 -> << 0 - rc[2], rc[1] >>
    [] s = 5 -> << rc[1], 0 - rc[2] >>
    [] s = 6 -> << 0 - rc[1], rc[2] >>
    [] s = 7 -> << rc[2], rc[1] >>
    [] s = 8 -> << 0 - rc[2], 0 - rc[1] >>

\* a cell set moved so that its least row and least column are 0
AtOrigin(cells) ==
  LET min_r == SetMin({ rc[1] : rc \in cells })
      min_c == SetMin({ rc[2] : rc \in cells })
  IN  { << rc[1] - min_r, rc[2] - min_c >> : rc \in cells }

\* the rotations and reflections of piece p_idx, as cell sets at the origin
ShapeOrientations(p_idx) ==
  { AtOrigin({ SquareImage(s, rc) : rc \in ShapeCells(p_idx) }) : s \in 1 .. 8 }

\* the (piece, mask) pairs of every orientation at every offset whose cells
\* are all on the board and playable
FittingPlacements ==
  UNION { UNION { { << p_idx, { PosToBitInit[<< at[1] + rc[1], at[2] + rc[2] >>] : rc \in o } >> :
                    at \in { a \in (0 .. (board_h - 1)) \X (0 .. (board_w - 1)) :
                               \A rc \in o :
                                 << a[1] + rc[1], a[2] + rc[2] >> \in DOMAIN PosToBitInit } } :
                  o \in ShapeOrientations(p_idx) } :
          p_idx \in PieceIds }

\* those of them that cover cell b
FittingOptions == [ b \in valid_mask |-> { pm \in FittingPlacements : b \in pm[2] } ]

\* C21: after construction cell_to_options[b] holds (p, mask) exactly when
\* mask is some orientation of piece p at some offset with every covered cell
\* on the board and playable, and b is a bit of mask; every cell, date cells
\* included, has such entries; every mask has as many bits as the piece has
\* cells.
C21_CellOptionsAreTheFittingPlacements ==
  /\ DOMAIN cell_to_options = valid_mask
  /\ \A b \in valid_mask :
       /\ Range(cell_to_options[b]) = FittingOptions[b]
       /\ cell_to_options[b] # << >>
       /\ \A k \in 1 .. Len(cell_to_options[b]) :
            Cardinality(cell_to_options[b][k][2]) =
              Cardinality(ShapeCells(cell_to_options[b][k][1]))

C21_Witness ==
  /\ run.pc = "done" /\ run.found /\ Cardinality(run.target) = 3
  /\ \A b \in run.target :
       \E k \in 1 .. Len(cell_to_options[b]) :
         Cardinality(cell_to_options[b][k][2] \cap run.target) >= 2


\* C22: within one query the body of dfs runs at most once per
\* (board_mask, used_mask) state: the calls that were not answered from the
\* cache are as many as the distinct states in progress or cached, no state
\* in progress is cached already or entered twice, and a state that returned
\* False stays cached, so that a later arrival is a cache hit.
C22_BodyRunsOncePerState ==
  run.pc \in { "search", "done" } =>
    /\ run.calls - run.hits = Cardinality(DOMAIN run.cache) + Len(run.stack)
    /\ \A i \in 1 .. Len(run.stack) : Key(run.stack[i]) \notin DOMAIN run.cache
    /\ \A i, j \in 1 .. Len(run.stack) :
         Key(run.stack[i]) = Key(run.stack[j]) => i = j

C22_Witness ==
  /\ run.pc = "search" /\ run.query = << 3, 12, 7 >> /\ run.stack # << >>
  /\ run.hits > 0
  /\ \E key \in DOMAIN run.cache : ~ run.cache[key]


\* the states of r's search that returned True
TrueStates(r) == { key \in DOMAIN r.cache : r.cache[key] }

\* the pieces of the first k - 1 moves of a move list
UsedBefore(moves, k) == { moves[i][1] : i \in 1 .. (k - 1) }

\* the search of r has its successes in step with its solution list: no
\* state is cached True while the search still makes calls, each state
\* that returned True below the full board has appended one entry, and the
\* returned list leads from the target mask to the full board through
\* exactly those states
SuccessPath(r) ==
  LET true_states == TrueStates(r)
      list        == r.moves.list
  IN  /\ (r.pc = "search" /\ ~ r.found) => true_states = {} /\ r.solution = << >>
      /\ (r.pc = "search" /\ r.found) =>
           Cardinality(true_states) = Len(r.solution) + 1
      /\ (r.pc = "done" /\ r.found) =>
           /\ list = Reverse(r.solution)
           /\ Cardinality(true_states) = Len(list) + 1
           /\ CoveredBefore(r.target, list, Len(list) + 1) = valid_mask
           /\ \A k \in 1 .. (Len(list) + 1) :
                << CoveredBefore(r.target, list, k), UsedBefore(list, k) >>
                  \in true_states
           /\ \A k \in 1 .. Len(list) :
                /\ Disjoint(list[k][2], CoveredBefore(r.target, list, k))
                /\ list[k][1] \notin UsedBefore(list, k)

\* once a dfs call of the query has returned True, a step makes no dfs call
\* and reads no cache entry: it returns from one frame, appending one entry,
\* or returns from _solve_mask
AfterSuccess ==
  (run.pc = "search" /\ run.found) =>
    /\ run'.calls = run.calls /\ run'.hits = run.hits
    /\ \/ /\ run'.pc = "search" /\ run'.found
          /\ Len(run'.stack) = Len(run.stack) - 1
          /\ Len(run'.solution) = Len(run.solution) + 1
       \/ /\ run'.pc = "done" /\ run.stack = << >>
          /\ run'.solution = run.solution

\* C23: once any dfs call returns True no further dfs call is started in
\* that query, so no cached True is ever read; every frame on the successful
\* path appends exactly one (piece, placement) entry; the reversed list is
\* the sequence of placements from the initial state to the full board.
C23_SuccessUnwindsWithoutCalls ==
  [][ AfterSuccess /\ SuccessPath(run') ]_vars

C23_Witness ==
  /\ run.pc = "search" /\ run.found /\ run.query = << 2, 2, 1 >>
  /\ Len(run.solution) = 5 /\ Len(run.stack) = 5
  /\ Cardinality(TrueStates(run)) = 6


\* the ways to cover the cells outside board_mask with one placement of
\* each piece outside used, as sets of (piece, mask) pairs
RECURSIVE ExactCovers(_, _)
ExactCovers(board_mask, used) ==
  IF used = PieceIds
    THEN IF board_mask = valid_mask THEN { {} } ELSE {}
  ELSE LET p == SetMin(PieceIds \ used)
       IN  UNION { { { << p, m >> } \cup cover :
                       cover \in ExactCovers(board_mask \cup m, used \cup { p }) } :
                   m \in { pm \in Range(PlacementsByPieceInit[p]) :
                             pm \cap board_mask = {} } }

\* the (piece, mask) pairs a board of the brute-force solver shows for the
\* pieces outside used
TilingOf(board, used) ==
  { << p, { PosToBitInit[rc] : rc \in { pos \in DOMAIN PosToBitInit :
                                          board[pos[1]][pos[2]] = p + 1 } } >> :
      p \in PieceIds \ used }

\* C24: solve_backtrack returns every exact cover of the position exactly
\* once: the boards it returns show exactly the exact covers, none is
\* missing and no two returned boards are equal.
C24_BacktrackFindsEachCoverOnce ==
  (probe.fn = "backtrack" /\ probe.pc = "returned") =>
    LET covers == ExactCovers(probe.target \cup PlacedMask(probe.placed),
                              probe.used_before)
    IN  /\ { TilingOf(probe.solutions[i], probe.used_before) :
              i \in 1 .. Len(probe.solutions) } = covers
        /\ Len(probe.solutions) = Cardinality(covers)
        /\ NoRepeats(probe.solutions)

C24_Witness ==
  /\ probe.fn = "backtrack" /\ probe.pc = "returned"
  /\ PieceIds \ probe.used_before \in DeepLeft
  /\ Len(probe.solutions) = 3

\* C25: when solve_backtrack returns, board_state and used_pieces hold the
\* values they had at the call, and the target (-1) and blank (-2) cells
\* of every board it returns are as they were.
C25_BacktrackRestoresItsArguments ==
  (probe.fn = "backtrack" /\ probe.pc = "returned") =>
    /\ probe.board_after = probe.board_before
    /\ probe.used_after = probe.used_before
    /\ \A i \in 1 .. Len(probe.solutions) :
         \A r \in DOMAIN probe.board_before : \A c \in DOMAIN probe.board_before[r] :
           (probe.board_before[r][c] < 0 \/ probe.solutions[i][r][c] < 0) =>
             probe.solutions[i][r][c] = probe.board_before[r][c]

C25_Witness ==
  /\ probe.fn = "backtrack" /\ probe.pc = "returned"
  /\ Len(probe.solutions) = 2 /\ probe.solutions[1] # probe.board_before
  /\ PieceIds \ probe.used_before \in DeepLeft
  /\ probe.board_after = probe.board_before /\ probe.used_after = probe.used_before

\* C26: every state solve_recursive reaches has covered_mask disjoint from
\* the target mask, so the early return for a covered target cell is never
\* taken, and no returned solution covers a date cell.
C26_CoveredMaskAvoidsTargets ==
  (probe.fn = "recursive" /\ probe.pc = "returned") =>
    /\ \A st \in DOMAIN probe.returned.memo : Disjoint(st[1], probe.target)
    /\ \A i \in 1 .. Len(probe.returned.result) :
         /\ Disjoint(probe.returned.result[i].covered_mask, probe.target)
         /\ \A p \in DOMAIN probe.returned.result[i].piece :
              Disjoint(probe.returned.result[i].piece[p].mask, probe.target)

C26_Witness ==
  /\ probe.fn = "recursive" /\ probe.pc = "returned"
  /\ Len(probe.returned.result) > 0 /\ Cardinality(DOMAIN probe.returned.memo) > 2
  /\ \E st \in DOMAIN probe.returned.memo : \E p \in PieceIds \ st[2] :
       \E k \in 1 .. Len(piece_placements[p]) :
         /\ Disjoint(piece_placements[p][k].mask, st[1])
         /\ ~ Disjoint(piece_placements[p][k].mask, probe.target)

\* C27: for each piece the three orientation generators (fast, brute-force,
\* Optimized) produce the same set of orientations, each orientation once.
C27_GeneratorsAgree ==
  (probe.fn = "orient" /\ probe.pc # "idle") =>
    /\ Range(probe.opt) = Range(probe.brute)
    /\ { CellsToMat(probe.outs[i]) : i \in 1 .. Len(probe.outs) } = Range(probe.brute)
    /\ { Range(piece_to_positions(probe.opt[i])) : i \in 1 .. Len(probe.opt) } =
         { Range(probe.outs[i]) : i \in 1 .. Len(probe.outs) }
    /\ Len(probe.opt) = Len(probe.brute) /\ Len(probe.outs) = Len(probe.brute)
    /\ NoRepeats(probe.opt) /\ NoRepeats(probe.brute) /\ NoRepeats(probe.outs)

C27_Witness ==
  /\ probe.fn = "orient" /\ probe.pc = "generated" /\ probe.piece = 0
  /\ Len(probe.opt) = 8 /\ Len(probe.brute) = 8 /\ Len(probe.outs) = 8
  /\ probe.opt # probe.brute


\* the playable cells of the board: those whose label is not empty
Playable ==
  { pos \in Range(RowMajor(board_h, board_w)) : BoardAt(pos[1], pos[2]) # "" }

\* pos comes before other in row-major order
RowMajorBefore(pos, other) ==
  pos[1] < other[1] \/ (pos[1] = other[1] /\ pos[2] < other[2])

\* C28: pos_to_bit is a bijection between the non-blank cells and
\* 0 .. total_bits - 1, assigned in row-major order with no gaps; bit_to_pos
\* is its inverse; blank cells have no bit; valid_mask has exactly the bits
\* 0 .. total_bits - 1.
C28_BitIndexIsDenseBijection ==
  /\ DOMAIN pos_to_bit = Playable
  /\ { pos_to_bit[pos] : pos \in DOMAIN pos_to_bit } = 0 .. (Cardinality(Playable) - 1)
  /\ \A pos, other \in DOMAIN pos_to_bit :
       RowMajorBefore(pos, other) <=> pos_to_bit[pos] < pos_to_bit[other]
  /\ DOMAIN bit_to_pos = { pos_to_bit[pos] : pos \in DOMAIN pos_to_bit }
  /\ \A pos \in DOMAIN pos_to_bit : bit_to_pos[pos_to_bit[pos]] = pos
  /\ \A bit \in DOMAIN bit_to_pos : pos_to_bit[bit_to_pos[bit]] = bit
  /\ total_bits = Cardinality(DOMAIN pos_to_bit)
  /\ valid_mask = DOMAIN bit_to_pos

C28_Witness ==
  /\ run.pc = "done" /\ run.found
  /\ Cardinality(DOMAIN pos_to_bit) = 52
  /\ Cardinality(Range(RowMajor(board_h, board_w)) \ DOMAIN pos_to_bit) = 4
  /\ pos_to_bit[<< 7, 2 >>] = 51 /\ bit_to_pos[51] = << 7, 2 >>


\* the loop positions of the dfs calls in progress, outermost first
LoopPositions(r) == [ i \in 1 .. Len(r.stack) |-> r.stack[i].idx ]

\* a comes before b in dictionary order
LexLess(a, b) ==
  \E k \in 1 .. Len(b) :
    /\ \A i \in 1 .. (k - 1) : i <= Len(a) /\ a[i] = b[i]
    /\ k = Len(a) + 1 \/ (k <= Len(a) /\ a[k] < b[k])

\* every dfs call in progress has one more piece in used_mask than its
\* caller, the piece of the option its caller's loop is at, and the calls
\* nest no deeper than the pieces allow
NestingBounded(r) ==
  /\ Len(r.stack) <= NumPieces + 1
  /\ \A i \in 1 .. Len(r.stack) :
       /\ Cardinality(r.stack[i].used_mask) = i - 1
       /\ r.stack[i].idx \in 1 .. (Len(cell_to_options[r.stack[i].bit]) + 1)
       /\ i > 1 =>
            LET opt == cell_to_options[r.stack[i - 1].bit][r.stack[i - 1].idx]
            IN  /\ opt[1] \notin r.stack[i - 1].used_mask
                /\ r.stack[i].used_mask = r.stack[i - 1].used_mask \cup { opt[1] }
                /\ r.stack[i].board_mask = r.stack[i - 1].board_mask \cup opt[2]

\* a step of the search moves the loop positions forward in dictionary
\* order, or a call returns True, or the calls in progress become fewer
SearchAdvances ==
  (run.pc = "search" /\ run' # run) =>
    \/ /\ ~ run.found /\ ~ run'.found /\ run'.pc = "search"
       /\ run'.stack = << >> \/ LexLess(LoopPositions(run), LoopPositions(run'))
    \/ ~ run.found /\ run'.found /\ run'.pc = "search"
    \/ /\ run.found /\ run'.found /\ run'.pc = "search"
       /\ Len(run'.stack) < Len(run.stack)
    \/ run.stack = << >> /\ run'.pc = "done"

\* C29: the search terminates; every chain of nested dfs calls places at
\* most ten pieces, each call adding exactly one new piece to used_mask, so
\* that the depth below the initial call never exceeds the piece count.
\* Every step advances a bounded measure (for every target mask, the
\* two-bit mask of a day with no cell included), and the search of a date
\* with three target cells returns.
C29_SearchTerminates ==
  /\ [][SearchAdvances]_vars
  /\ [] NestingBounded(run)
  /\ (run.pc = "search" /\ Cardinality(run.target) = 3) ~> (run.pc = "done")

C29_Witness ==
  /\ run.pc = "search" /\ ~ run.found /\ run.query = << 2, 2, 1 >>
  /\ Len(run.stack) = NumPieces
  /\ Cardinality(Top(run.stack).used_mask) = NumPieces - 1


\* C30: whenever can_place_piece(board_state, piece, r, c) is true,
\* place_piece followed by remove_piece with the same piece and position
\* leaves board_state equal to its value before the pair of calls (and in
\* between the piece's cells, and no others, hold the piece's id).
C30_PlaceThenRemoveRestores ==
  (probe.fn = "place" /\ probe.pc = "returned" /\ probe.can_place) =>
    /\ probe.removed = probe.board_state
    /\ \A r \in DOMAIN probe.board_state : \A c \in DOMAIN probe.board_state[r] :
         IF << r, c >> \in PieceCells(probe.orientation, probe.start_row, probe.start_col)
           THEN probe.board_state[r][c] = 0 /\ probe.placed[r][c] = probe.piece + 1
         ELSE probe.placed[r][c] = probe.board_state[r][c]

C30_Witness ==
  /\ probe.fn = "place" /\ probe.pc = "returned" /\ probe.can_place
  /\ probe.placed # probe.board_state /\ probe.removed = probe.board_state
  /\ \E r \in DOMAIN probe.board_state : \E c \in DOMAIN probe.board_state[r] :
       probe.board_state[r][c] = -1

=============================================================================
